---------------------------- MODULE Spec2Model ----------------------------
(*************************************************************************)
(* Model of src/src/AppProvider.tsx: the reducer-shaped client store of  *)
(* task lists and tasks, the api wrappers that perform one HTTP request  *)
(* each and dispatch one reducer action on success, and the REST service *)
(* the wrappers talk to.                                                 *)
(*                                                                       *)
(* Two specifications are given.  Spec drives the store through the api  *)
(* (calls suspended at their await, the service answering, responses     *)
(* resuming the calls in any order).  ReducerSpec applies the reducer to *)
(* arbitrary sequences of actions starting from initialState.            *)
(*************************************************************************)
EXTENDS Integers, Sequences, FiniteSets, TLC

VARIABLES
  state,       \* the useReducer state: [taskLists, tasks]
  prev,        \* the state before the last completed call / dispatch
  last,        \* what the last completed call / dispatch was
  calls,       \* the async api invocations, one slot per invocation
  db,          \* the service's task lists, in listing order
  nextId,      \* index in IdSeq of the next id the service assigns
  mounted,     \* whether AppProvider's useEffect has run
  issued,      \* number of api calls issued by consumers
  dispatched,  \* number of actions dispatched directly (ReducerSpec)
  lookup,      \* what the last useAppContext() of a component gave
  gone         \* ids whose deleteTaskList completed, with no request that
               \* fetches them issued since

vars == <<state, prev, last, calls, db, nextId, mounted, issued, dispatched,
          lookup, gone>>

(*************************************************************************)
(* Bounds of the model.                                                  *)
(*************************************************************************)
MaxCalls == 2      \* api invocations that may be in flight together
MaxOps   == 2      \* api calls consumers issue in one behaviour
MaxSteps == 3      \* actions dispatched in one behaviour of ReducerSpec

(*************************************************************************)
(* Value domains.  Identifiers are opaque strings; name and title stand  *)
(* for the descriptive fields the module never inspects.                 *)
(*************************************************************************)
IdSeq   == <<"A", "B">>
Ids     == {IdSeq[i] : i \in 1..Len(IdSeq)}
Names   == {"Work", "Home"}
TaskIds == {"1", "2"}
Titles  == {"x", "y"}

TaskListRecs == [id : Ids, name : Names]
TaskRecs     == [id : TaskIds, title : Titles]

UniqueIds(seq) ==
  \A i, j \in 1..Len(seq) : seq[i].id = seq[j].id => i = j

SeqsUpTo(S, n) == UNION {[1..k -> S] : k \in 0..n}

\* duplicate-free listings a service can answer with
Listings     == {s \in SeqsUpTo(TaskListRecs, Cardinality(Ids)) : UniqueIds(s)}
TaskListings == {s \in SeqsUpTo(TaskRecs, Cardinality(TaskIds)) : UniqueIds(s)}

\* the task listings the service of Spec answers with
ServedTasks ==
  { <<>>,
    <<[id |-> "1", title |-> "x"]>>,
    <<[id |-> "2", title |-> "y"], [id |-> "1", title |-> "y"]>> }

(*************************************************************************)
(* JavaScript values.  tasks[k] is either an array or undefined; a key   *)
(* can be present in the object and hold undefined.                      *)
(*************************************************************************)
Undefined == [isArray |-> FALSE, items |-> <<>>]
Arr(s)    == [isArray |-> TRUE, items |-> s]

\* obj[k]
JsGet(obj, k) == IF k \in DOMAIN obj THEN obj[k] ELSE Undefined

\* { ...obj, [k]: v }
JsSpreadSet(obj, k, v) ==
  [x \in (DOMAIN obj) \cup {k} |-> IF x = k THEN v ELSE obj[x]]

\* v || w  (arrays, even empty ones, are truthy; undefined is falsy)
JsOr(v, w) == IF v.isArray THEN v ELSE w

\* arr.some(e => e.id === id)
SomeId(arr, id) == \E i \in 1..Len(arr) : arr[i].id = id

\* arr.map(e => e.id === id ? v : e)
MapReplace(arr, id, v) ==
  [i \in 1..Len(arr) |-> IF arr[i].id = id THEN v ELSE arr[i]]

\* arr.filter(e => e.id !== id)
FilterOut(arr, id) == SelectSeq(arr, LAMBDA e : e.id # id)

\* v?.map(e => e.id === id ? w : e)
OptMapReplace(v, id, w) ==
  IF v.isArray THEN Arr(MapReplace(v.items, id, w)) ELSE Undefined

\* v?.filter(e => e.id !== id)
OptFilterOut(v, id) ==
  IF v.isArray THEN Arr(FilterOut(v.items, id)) ELSE Undefined

(*************************************************************************)
(* Action types.                                                         *)
(*************************************************************************)
FETCH_TASKLISTS == "FETCH_TASKLISTS"
GET_TASKLIST    == "GET_TASKLIST"
CREATE_TASKLIST == "CREATE_TASKLIST"
UPDATE_TASKLIST == "UPDATE_TASKLIST"
DELETE_TASKLIST == "DELETE_TASKLIST"
FETCH_TASKS     == "FETCH_TASKS"
CREATE_TASK     == "CREATE_TASK"
GET_TASK        == "GET_TASK"
UPDATE_TASK     == "UPDATE_TASK"
DELETE_TASK     == "DELETE_TASK"

(*************************************************************************)
(* The reducer, case by case.                                            *)
(*************************************************************************)
\* variant: the listing is merged into what is already held
ReduceFetchTaskListsMerging(s, p) == [s EXCEPT !.taskLists = @ \o p]

ReduceFetchTaskLists(s, p) == [s EXCEPT !.taskLists = p]

\* variant: the fetched list is appended without looking for its id
ReduceGetTaskListAppending(s, p) ==
  [s EXCEPT !.taskLists = Append(@, p)]

ReduceGetTaskList(s, p) ==
  [s EXCEPT !.taskLists =
     IF SomeId(s.taskLists, p.id)
       THEN MapReplace(s.taskLists, p.id, p)
       ELSE Append(s.taskLists, p)]

\* variant: the created list is put first
ReduceCreateTaskListPrepending(s, p) == [s EXCEPT !.taskLists = <<p>> \o @]

ReduceCreateTaskList(s, p) == [s EXCEPT !.taskLists = Append(s.taskLists, p)]

\* variant: an update of an id not held appends the list
ReduceUpdateTaskListUpserting(s, p) ==
  [s EXCEPT !.taskLists =
     IF SomeId(@, p.id) THEN MapReplace(@, p.id, p) ELSE Append(@, p)]

\* variant: "{ ...action.payload, ...tl }", the fields already held win
ReduceUpdateTaskListOldFieldsWin(s, p) ==
  [s EXCEPT !.taskLists =
     [i \in 1..Len(@) |-> IF @[i].id = p.id THEN @[i] ELSE @[i]]]

ReduceUpdateTaskList(s, p) ==
  [s EXCEPT !.taskLists = MapReplace(s.taskLists, p.id, p)]

\* variant: the tasks held for the deleted list are dropped with it
ReduceDeleteTaskListClearingTasks(s, p) ==
  [s EXCEPT !.taskLists = FilterOut(@, p),
            !.tasks = [k \in (DOMAIN @) \ {p} |-> @[k]]]

\* variant: only the first entry of the id is removed (findIndex + splice)
ReduceDeleteTaskListFirstOnly(s, p) ==
  [s EXCEPT !.taskLists =
     IF SomeId(@, p)
       THEN LET k == CHOOSE i \in 1..Len(@) :
                       @[i].id = p /\ \A j \in 1..(i - 1) : @[j].id # p
            IN SubSeq(@, 1, k - 1) \o SubSeq(@, k + 1, Len(@))
       ELSE @]

ReduceDeleteTaskList(s, p) ==
  [s EXCEPT !.taskLists = FilterOut(s.taskLists, p)]

\* variant: the fetched tasks are added to the tasks already held
ReduceFetchTasksMerging(s, p) ==
  [s EXCEPT !.tasks =
     JsSpreadSet(@, p.taskListId,
       Arr(JsOr(JsGet(@, p.taskListId), Arr(<<>>)).items \o p.tasks))]

\* variant: "{ [id]: tasks }" without the spread of the tasks already held
ReduceFetchTasksDroppingOthers(s, p) ==
  [s EXCEPT !.tasks = JsSpreadSet([k \in {} |-> Undefined], p.taskListId,
                                  Arr(p.tasks))]

ReduceFetchTasks(s, p) ==
  [s EXCEPT !.tasks = JsSpreadSet(s.tasks, p.taskListId, Arr(p.tasks))]

\* variant: without the "|| []" default for a list that has no key yet
ReduceCreateTaskNoDefault(s, p) ==
  [s EXCEPT !.tasks =
     JsSpreadSet(@, p.taskListId,
       IF JsGet(@, p.taskListId).isArray
         THEN Arr(Append(JsGet(@, p.taskListId).items, p.task))
         ELSE Undefined)]

ReduceCreateTask(s, p) ==
  [s EXCEPT !.tasks =
     JsSpreadSet(s.tasks, p.taskListId,
       Arr(Append(JsOr(JsGet(s.tasks, p.taskListId), Arr(<<>>)).items, p.task)))]

ReduceGetTask(s, p) ==
  [s EXCEPT !.tasks =
     JsSpreadSet(s.tasks, p.taskListId,
       JsOr(OptMapReplace(JsGet(s.tasks, p.taskListId), p.task.id, p.task),
            Arr(<<p.task>>)))]

\* variant: an update of a task id not held appends the task
ReduceUpdateTaskUpserting(s, p) ==
  [s EXCEPT !.tasks =
     JsSpreadSet(@, p.taskListId,
       LET v == JsGet(@, p.taskListId)
       IN IF v.isArray /\ ~SomeId(v.items, p.taskId)
            THEN Arr(Append(v.items, p.task))
            ELSE OptMapReplace(v, p.taskId, p.task))]

ReduceUpdateTask(s, p) ==
  [s EXCEPT !.tasks =
     JsSpreadSet(s.tasks, p.taskListId,
       OptMapReplace(JsGet(s.tasks, p.taskListId), p.taskId, p.task))]

\* variant: "(state.tasks[id] || []).filter(...)", a list without tasks
\* gets an empty array
ReduceDeleteTaskDefaulting(s, p) ==
  [s EXCEPT !.tasks =
     JsSpreadSet(@, p.taskListId,
       Arr(FilterOut(JsOr(JsGet(@, p.taskListId), Arr(<<>>)).items, p.taskId)))]

ReduceDeleteTask(s, p) ==
  [s EXCEPT !.tasks =
     JsSpreadSet(s.tasks, p.taskListId,
       OptFilterOut(JsGet(s.tasks, p.taskListId), p.taskId))]

reducer(s, action) ==
  CASE action.type = FETCH_TASKLISTS -> ReduceFetchTaskLists(s, action.payload)
    [] action.type = GET_TASKLIST    -> ReduceGetTaskList(s, action.payload)
    [] action.type = CREATE_TASKLIST -> ReduceCreateTaskList(s, action.payload)
    [] action.type = UPDATE_TASKLIST -> ReduceUpdateTaskList(s, action.payload)
    [] action.type = DELETE_TASKLIST -> ReduceDeleteTaskList(s, action.payload)
    [] action.type = FETCH_TASKS     -> ReduceFetchTasks(s, action.payload)
    [] action.type = CREATE_TASK     -> ReduceCreateTask(s, action.payload)
    [] action.type = GET_TASK        -> ReduceGetTask(s, action.payload)
    [] action.type = UPDATE_TASK     -> ReduceUpdateTask(s, action.payload)
    [] action.type = DELETE_TASK     -> ReduceDeleteTask(s, action.payload)
    [] OTHER                         -> s

EmptyObject == [k \in {} |-> Undefined]

initialState == [taskLists |-> <<>>, tasks |-> EmptyObject]

(*************************************************************************)
(* History kept for stating properties: the state before the last        *)
(* completed call or dispatch, and what that completion was.             *)
(*   kind : "none" | "dispatch" | "reject"                               *)
(*   op   : the api method that completed ("reducer" in ReducerSpec)     *)
(*   id   : the id argument of the api method ("" when it has none)      *)
(*   data : the response body the call resumed with, as a sequence       *)
(*   action : the action handed to dispatch                              *)
(*************************************************************************)
NoAction == [type |-> "NONE", payload |-> <<>>]
NoLookup == [scope |-> "none", threw |-> FALSE, value |-> <<>>]

NoLast   == [kind |-> "none", op |-> "", id |-> "", data |-> <<>>,
             action |-> NoAction]

\* dispatch(action): the reducer runs on the current state; the provider
\* renders again with a new context value, which components look up anew
Dispatch(op, id, data, action) ==
  /\ state' = reducer(state, action)
  /\ lookup' = NoLookup
  /\ prev' = state
  /\ last' = [kind |-> "dispatch", op |-> op, id |-> id, data |-> data,
              action |-> action]

(*************************************************************************)
(* The api.  A call occupies a slot from the moment the request is sent  *)
(* until the awaiting function resumes or throws.                        *)
(*   st : "idle" | "sent" (request on its way or being handled)          *)
(*        | "ok" (2xx response on its way back) | "fail" (the await      *)
(*        will throw: transport error or non-2xx status)                 *)
(*************************************************************************)
Idle == [op |-> "idle", id |-> "", name |-> "", st |-> "idle", data |-> <<>>]

Slots == 1..MaxCalls

HasFreeSlot == \E i \in Slots : calls[i].st = "idle"

FreeSlot == CHOOSE i \in Slots :
              /\ calls[i].st = "idle"
              /\ \A j \in Slots : calls[j].st = "idle" => i <= j

Request(op, id, name) ==
  [op |-> op, id |-> id, name |-> name, st |-> "sent", data |-> <<>>]

\* the request of an api method leaves; the method is suspended at its await
Send(req) ==
  /\ HasFreeSlot
  /\ calls' = [calls EXCEPT ![FreeSlot] = req]
  /\ UNCHANGED <<state, prev, last, db, nextId, dispatched, lookup>>

\* consumers reach the api through the context of a mounted provider
CanIssue == mounted /\ issued < MaxOps

Issued == issued' = issued + 1 /\ UNCHANGED mounted

fetchTaskLists ==
  /\ CanIssue
  /\ Send(Request("fetchTaskLists", "", ""))
  /\ Issued
  /\ gone' = {}

getTaskList(id) ==
  /\ CanIssue
  /\ Send(Request("getTaskList", id, ""))
  /\ Issued
  /\ gone' = gone \ {id}

\* variant: the list is shown before the service has answered
createTaskListOptimistic(name) ==
  /\ CanIssue
  /\ HasFreeSlot
  /\ calls' = [calls EXCEPT ![FreeSlot] = Request("createTaskList", "", name)]
  /\ state' = [state EXCEPT
                 !.taskLists = Append(@, [id |-> "", name |-> name])]
  /\ UNCHANGED <<prev, last, db, nextId, dispatched, lookup>>
  /\ Issued
  /\ UNCHANGED gone

createTaskList(name) ==
  /\ CanIssue
  /\ Send(Request("createTaskList", "", name))
  /\ Issued
  /\ UNCHANGED gone

updateTaskList(id, name) ==
  /\ CanIssue
  /\ Send(Request("updateTaskList", id, name))
  /\ Issued
  /\ UNCHANGED gone

deleteTaskList(id) ==
  /\ CanIssue
  /\ Send(Request("deleteTaskList", id, ""))
  /\ Issued
  /\ UNCHANGED gone

fetchTasks(taskListId) ==
  /\ CanIssue
  /\ Send(Request("fetchTasks", taskListId, ""))
  /\ Issued
  /\ UNCHANGED gone

\* variant: the effect marks the provider mounted but fetches nothing
MountWithoutFetch ==
  /\ ~mounted
  /\ mounted' = TRUE
  /\ UNCHANGED <<state, prev, last, calls, db, nextId, issued, dispatched,
                 lookup, gone>>

\* useEffect(() => { api.fetchTaskLists(); }, [])
Mount ==
  /\ ~mounted
  /\ mounted' = TRUE
  /\ Send(Request("fetchTaskLists", "", ""))
  /\ UNCHANGED <<issued, gone>>

(*************************************************************************)
(* The REST service.  It handles one request at a time, in any order     *)
(* relative to the order the requests were sent.                         *)
(*************************************************************************)
Respond(i, data) ==
  calls' = [calls EXCEPT ![i] = [@ EXCEPT !.st = "ok", !.data = data]]

ServerFrame ==
  UNCHANGED <<state, prev, last, mounted, issued, dispatched, lookup, gone>>

DbIndex(id) == CHOOSE k \in 1..Len(db) : db[k].id = id

\* GET /task-lists
ServeList(i) ==
  /\ calls[i].st = "sent" /\ calls[i].op = "fetchTaskLists"
  /\ Respond(i, db)
  /\ UNCHANGED <<db, nextId>>
  /\ ServerFrame

\* GET /task-lists/{id}
ServeGet(i) ==
  /\ calls[i].st = "sent" /\ calls[i].op = "getTaskList"
  /\ SomeId(db, calls[i].id)
  /\ Respond(i, <<db[DbIndex(calls[i].id)]>>)
  /\ UNCHANGED <<db, nextId>>
  /\ ServerFrame

\* POST /task-lists: the service assigns an id it never assigned before
ServeCreate(i) ==
  /\ calls[i].st = "sent" /\ calls[i].op = "createTaskList"
  /\ nextId <= Len(IdSeq)
  /\ LET tl == [id |-> IdSeq[nextId], name |-> calls[i].name]
     IN /\ db' = Append(db, tl)
        /\ Respond(i, <<tl>>)
  /\ nextId' = nextId + 1
  /\ ServerFrame

\* PUT /task-lists/{id}
ServeUpdate(i) ==
  /\ calls[i].st = "sent" /\ calls[i].op = "updateTaskList"
  /\ SomeId(db, calls[i].id)
  /\ LET tl == [id |-> calls[i].id, name |-> calls[i].name]
     IN /\ db' = MapReplace(db, calls[i].id, tl)
        /\ Respond(i, <<tl>>)
  /\ UNCHANGED nextId
  /\ ServerFrame

\* DELETE /task-lists/{id}
ServeDelete(i) ==
  /\ calls[i].st = "sent" /\ calls[i].op = "deleteTaskList"
  /\ SomeId(db, calls[i].id)
  /\ db' = FilterOut(db, calls[i].id)
  /\ Respond(i, <<>>)
  /\ UNCHANGED nextId
  /\ ServerFrame

\* GET /task-lists/{id}/tasks: the tasks of a list are maintained elsewhere,
\* the service answers with any duplicate-free listing
ServeTasks(i) ==
  /\ calls[i].st = "sent" /\ calls[i].op = "fetchTasks"
  /\ SomeId(db, calls[i].id)
  /\ \E ts \in ServedTasks : Respond(i, ts)
  /\ UNCHANGED <<db, nextId>>
  /\ ServerFrame

\* transport error or non-2xx status: the request is lost or refused
\* ("sent"), or the response of a handled request is lost ("ok")
Fail(i) ==
  /\ calls[i].st \in {"sent", "ok"}
  /\ calls' = [calls EXCEPT ![i] = [@ EXCEPT !.st = "fail", !.data = <<>>]]
  /\ UNCHANGED <<db, nextId>>
  /\ ServerFrame

(*************************************************************************)
(* Completion of a call: the await returns and the method dispatches, or *)
(* the await throws and the promise of the method is rejected.           *)
(*************************************************************************)
ActionOf(c) ==
  CASE c.op = "fetchTaskLists" -> [type |-> FETCH_TASKLISTS, payload |-> c.data]
    [] c.op = "getTaskList"    -> [type |-> GET_TASKLIST, payload |-> c.data[1]]
    [] c.op = "createTaskList" -> [type |-> CREATE_TASKLIST, payload |-> c.data[1]]
    [] c.op = "updateTaskList" -> [type |-> UPDATE_TASKLIST, payload |-> c.data[1]]
    [] c.op = "deleteTaskList" -> [type |-> DELETE_TASKLIST, payload |-> c.id]
    [] c.op = "fetchTasks"     ->
         [type |-> FETCH_TASKS,
          payload |-> [taskListId |-> c.id, tasks |-> c.data]]

Resume(i) ==
  /\ calls[i].st = "ok"
  /\ Dispatch(calls[i].op, calls[i].id, calls[i].data, ActionOf(calls[i]))
  /\ calls' = [calls EXCEPT ![i] = Idle]
  /\ gone' = IF calls[i].op = "deleteTaskList"
               THEN gone \cup {calls[i].id} ELSE gone
  /\ UNCHANGED <<db, nextId, mounted, issued, dispatched>>

\* variant: a failed call resets the task lists
RejectClearing(i) ==
  /\ calls[i].st = "fail"
  /\ state' = [state EXCEPT !.taskLists = <<>>]
  /\ prev' = state
  /\ last' = [kind |-> "reject", op |-> calls[i].op, id |-> calls[i].id,
              data |-> <<>>, action |-> NoAction]
  /\ calls' = [calls EXCEPT ![i] = Idle]
  /\ UNCHANGED <<db, nextId, mounted, issued, dispatched, lookup, gone>>

Reject(i) ==
  /\ calls[i].st = "fail"
  /\ state' = state
  /\ prev' = state
  /\ last' = [kind |-> "reject", op |-> calls[i].op, id |-> calls[i].id,
              data |-> <<>>, action |-> NoAction]
  /\ calls' = [calls EXCEPT ![i] = Idle]
  /\ UNCHANGED <<db, nextId, mounted, issued, dispatched, lookup, gone>>

(*************************************************************************)
(* Specification of the store driven through its api.                    *)
(*************************************************************************)
Init ==
  /\ state = initialState
  /\ prev = initialState
  /\ last = NoLast
  /\ calls = [i \in Slots |-> Idle]
  /\ db = <<[id |-> IdSeq[1], name |-> "Work"]>>
  /\ nextId = Len(db) + 1
  /\ mounted = FALSE
  /\ issued = 0
  /\ dispatched = 0
  /\ lookup = NoLookup
  /\ gone = {}

Next ==
  \/ Mount
  \/ fetchTaskLists
  \/ \E id \in Ids : getTaskList(id)
  \/ \E name \in Names : createTaskList(name)
  \/ \E id \in Ids, name \in Names : updateTaskList(id, name)
  \/ \E id \in Ids : deleteTaskList(id)
  \/ \E id \in Ids : fetchTasks(id)
  \/ \E i \in Slots : ServeList(i)
  \/ \E i \in Slots : ServeGet(i)
  \/ \E i \in Slots : ServeCreate(i)
  \/ \E i \in Slots : ServeUpdate(i)
  \/ \E i \in Slots : ServeDelete(i)
  \/ \E i \in Slots : ServeTasks(i)
  \/ \E i \in Slots : Fail(i)
  \/ \E i \in Slots : Resume(i)
  \/ \E i \in Slots : Reject(i)

Spec == Init /\ [][Next]_vars

(*************************************************************************)
(* Spec with the progress the runtime provides: React runs the effect    *)
(* after the first render, the service answers the listing request, and  *)
(* the event loop resumes a function whose awaited promise has settled.  *)
(*************************************************************************)
FairSpec ==
  /\ Spec
  /\ WF_vars(Mount)
  /\ WF_vars(\E i \in Slots : ServeList(i))
  /\ WF_vars(\E i \in Slots : Resume(i))

(*************************************************************************)
(* The context.  AppContext is created with the default value undefined; *)
(* AppProvider provides { state, api } to the components below it.  A    *)
(* context value is modelled as <<>> (undefined) or a one-element        *)
(* sequence holding the provided object.                                 *)
(*************************************************************************)
\* the methods of the api object built by AppProvider
ApiMethods ==
  {"fetchTaskLists", "getTaskList", "createTaskList", "updateTaskList",
   "deleteTaskList", "fetchTasks"}

\* the methods the AppContextType interface declares for api
DeclaredApiMethods ==
  {"fetchTaskLists", "getTaskList", "createTaskList", "updateTaskList",
   "deleteTaskList", "fetchTasks", "createTask", "updateTask", "deleteTask"}

\* useContext(AppContext) in a component inside / outside an AppProvider
useContext(inside) ==
  IF inside THEN <<[state |-> state, api |-> ApiMethods]>> ELSE <<>>

\* variant: the context is returned without the check for undefined
useAppContextUnchecked(inside) ==
  [threw |-> FALSE, value |-> useContext(inside)]

useAppContext(inside) ==
  LET context == useContext(inside)
  IN IF context = <<>>
       THEN [threw |-> TRUE, value |-> <<>>]
       ELSE [threw |-> FALSE, value |-> context]

ContextFrame ==
  UNCHANGED <<state, prev, last, calls, db, nextId, mounted, issued,
              dispatched, gone>>

\* a component below AppProvider renders and calls useAppContext()
UseInside ==
  /\ lookup' = [scope |-> "inside",
                threw |-> useAppContext(TRUE).threw,
                value |-> useAppContext(TRUE).value]
  /\ ContextFrame

\* a component that is not below an AppProvider calls useAppContext()
UseOutside ==
  /\ lookup' = [scope |-> "outside",
                threw |-> useAppContext(FALSE).threw,
                value |-> useAppContext(FALSE).value]
  /\ ContextFrame

ContextNext ==
  \/ Next
  \/ UseInside
  \/ UseOutside

ContextSpec == Init /\ [][ContextNext]_vars

(*************************************************************************)
(* Specification of the reducer alone: any action of the Action type,    *)
(* in any order, from initialState.                                      *)
(*************************************************************************)
CanApply == dispatched < MaxSteps

Apply(action) ==
  /\ dispatched' = dispatched + 1
  /\ Dispatch("reducer", "", <<>>, action)
  /\ UNCHANGED <<calls, db, nextId, mounted, issued, gone>>

ApplyFetchTaskLists ==
  /\ CanApply
  /\ \E p \in Listings : Apply([type |-> FETCH_TASKLISTS, payload |-> p])

ApplyGetTaskList ==
  /\ CanApply
  /\ \E p \in TaskListRecs : Apply([type |-> GET_TASKLIST, payload |-> p])

ApplyCreateTaskList ==
  /\ CanApply
  /\ \E p \in TaskListRecs : Apply([type |-> CREATE_TASKLIST, payload |-> p])

ApplyUpdateTaskList ==
  /\ CanApply
  /\ \E p \in TaskListRecs : Apply([type |-> UPDATE_TASKLIST, payload |-> p])

ApplyDeleteTaskList ==
  /\ CanApply
  /\ \E p \in Ids : Apply([type |-> DELETE_TASKLIST, payload |-> p])

ApplyFetchTasks ==
  /\ CanApply
  /\ \E p \in [taskListId : Ids, tasks : TaskListings] :
        Apply([type |-> FETCH_TASKS, payload |-> p])

ApplyCreateTask ==
  /\ CanApply
  /\ \E p \in [taskListId : Ids, task : TaskRecs] :
        Apply([type |-> CREATE_TASK, payload |-> p])

ApplyGetTask ==
  /\ CanApply
  /\ \E p \in [taskListId : Ids, task : TaskRecs] :
        Apply([type |-> GET_TASK, payload |-> p])

ApplyUpdateTask ==
  /\ CanApply
  /\ \E p \in [taskListId : Ids, taskId : TaskIds, task : TaskRecs] :
        Apply([type |-> UPDATE_TASK, payload |-> p])

ApplyDeleteTask ==
  /\ CanApply
  /\ \E p \in [taskListId : Ids, taskId : TaskIds] :
        Apply([type |-> DELETE_TASK, payload |-> p])

ReducerNext ==
  \/ ApplyFetchTaskLists
  \/ ApplyGetTaskList
  \/ ApplyCreateTaskList
  \/ ApplyUpdateTaskList
  \/ ApplyDeleteTaskList
  \/ ApplyFetchTasks
  \/ ApplyCreateTask
  \/ ApplyGetTask
  \/ ApplyUpdateTask
  \/ ApplyDeleteTask

ReducerSpec == Init /\ [][ReducerNext]_vars

(*************************************************************************)
(* Properties.                                                           *)
(*************************************************************************)
Completed(op) == last.kind = "dispatch" /\ last.op = op
Applied(type) == last.kind = "dispatch" /\ last.action.type = type

\* the entries of seq whose id is not id, in their order
RECURSIVE Others(_, _)
Others(seq, id) ==
  IF seq = <<>> THEN <<>>
  ELSE IF Head(seq).id = id THEN Others(Tail(seq), id)
       ELSE <<Head(seq)>> \o Others(Tail(seq), id)

SameKeysAndValues(f, g) ==
  /\ DOMAIN f = DOMAIN g
  /\ \A k \in DOMAIN f : f[k] = g[k]

\* C1: in every reachable state no two entries of taskLists have the same
\* id, whatever the order in which the responses of concurrent calls are
\* applied (the service assigns unique ids and answers with duplicate-free
\* listings).
C1_UniqueTaskListIds == UniqueIds(state.taskLists)

\* C2: when the request of a call fails, the call is rejected and the
\* snapshot is the one that was there when the failure was delivered: no
\* reducer transition is applied for the call.
C2_FailureLeavesSnapshot ==
  last.kind = "reject" => (state = prev /\ last.action = NoAction)

C2_Witness ==
  /\ last.kind = "reject"
  /\ last.op = "createTaskList"
  /\ state.taskLists # <<>>

\* C3: after the response of a successful fetchTaskLists has been applied,
\* taskLists is exactly the listing of that response; nothing of the
\* previous taskLists is kept.
C3_FetchReplaces ==
  Completed("fetchTaskLists") => state.taskLists = last.data

C3_Witness ==
  /\ Completed("fetchTaskLists")
  /\ prev.taskLists # <<>>
  /\ \E i \in 1..Len(prev.taskLists) :
        \A j \in 1..Len(state.taskLists) :
           state.taskLists[j] # prev.taskLists[i]

\* C4: a successful getTaskList is an upsert: when an entry with the
\* returned id exists the length is unchanged and the entry is replaced in
\* place by the returned value; otherwise the returned value is appended;
\* every other entry keeps its value and position.
C4_GetTaskListUpserts ==
  Completed("getTaskList") =>
    LET tl  == last.data[1]
        old == prev.taskLists
        new == state.taskLists
    IN IF \E i \in 1..Len(old) : old[i].id = tl.id
         THEN /\ Len(new) = Len(old)
              /\ \A i \in 1..Len(old) :
                    new[i] = IF old[i].id = tl.id THEN tl ELSE old[i]
         ELSE /\ Len(new) = Len(old) + 1
              /\ new[Len(new)] = tl
              /\ \A i \in 1..Len(old) : new[i] = old[i]

C4_Witness ==
  /\ Completed("getTaskList")
  /\ \E i \in 1..Len(prev.taskLists) :
        /\ prev.taskLists[i].id = last.data[1].id
        /\ prev.taskLists[i] # last.data[1]
        /\ state.taskLists[i] = last.data[1]

\* C5 as stated: a successful deleteTaskList(id) removes exactly one entry
\* of taskLists, the one whose id is id, and leaves the tasks map as it was.
C5_DeleteRemovesExactlyOne ==
  Completed("deleteTaskList") =>
    /\ Len(state.taskLists) = Len(prev.taskLists) - 1
    /\ state.taskLists = Others(prev.taskLists, last.id)
    /\ SameKeysAndValues(state.tasks, prev.tasks)

\* C5 amended: a successful deleteTaskList(id) removes every entry of
\* taskLists whose id is id (none when no entry has that id), keeps the
\* other entries in their order, and leaves the tasks map as it was: same
\* keys, and the same value under every key, key id included.
C5_DeleteRemovesMatching ==
  Completed("deleteTaskList") =>
    /\ state.taskLists = Others(prev.taskLists, last.id)
    /\ Len(state.taskLists) =
         Len(prev.taskLists)
           - Cardinality({i \in 1..Len(prev.taskLists) :
                            prev.taskLists[i].id = last.id})
    /\ SameKeysAndValues(state.tasks, prev.tasks)

C5_Witness ==
  /\ Completed("deleteTaskList")
  /\ Len(state.taskLists) = Len(prev.taskLists) - 1
  /\ last.id \in DOMAIN state.tasks
  /\ state.tasks[last.id].isArray
  /\ state.tasks[last.id].items # <<>>

\* C6: a successful updateTaskList(id, data) replaces in place the entry
\* whose id is id by the returned TaskList; when no entry has that id
\* taskLists is unchanged; the length of taskLists is unchanged in both
\* cases.
C6_UpdateTaskListReplaces ==
  Completed("updateTaskList") =>
    LET tl  == last.data[1]
        old == prev.taskLists
        new == state.taskLists
    IN /\ Len(new) = Len(old)
       /\ \A i \in 1..Len(old) :
             new[i] = IF old[i].id = last.id THEN tl ELSE old[i]
       /\ (\A i \in 1..Len(old) : old[i].id # last.id) => new = old

C6_Witness ==
  /\ Completed("updateTaskList")
  /\ prev.taskLists # <<>>
  /\ \A i \in 1..Len(prev.taskLists) : prev.taskLists[i].id # last.id

\* C7: a successful createTaskList appends exactly the returned TaskList
\* as the new last element: the length grows by one and every previous
\* entry keeps its value and position.
C7_CreateTaskListAppends ==
  Completed("createTaskList") =>
    LET old == prev.taskLists
        new == state.taskLists
    IN /\ Len(new) = Len(old) + 1
       /\ new[Len(new)] = last.data[1]
       /\ \A i \in 1..Len(old) : new[i] = old[i]

C7_Witness ==
  /\ Completed("createTaskList")
  /\ prev.taskLists # <<>>

C9_CreateTaskAppends ==
  Applied(CREATE_TASK) =>
    LET p   == last.action.payload
        old == IF p.taskListId \in DOMAIN prev.tasks
                    /\ prev.tasks[p.taskListId].isArray
                 THEN prev.tasks[p.taskListId].items
                 ELSE <<>>
    IN /\ p.taskListId \in DOMAIN state.tasks
       /\ state.tasks[p.taskListId].isArray
       /\ Len(state.tasks[p.taskListId].items) = Len(old) + 1
       /\ state.tasks[p.taskListId].items[Len(old) + 1] = p.task
       /\ \A i \in 1..Len(old) : state.tasks[p.taskListId].items[i] = old[i]

C9_Witness ==
  /\ Applied(CREATE_TASK)
  /\ last.action.payload.taskListId \notin DOMAIN prev.tasks
  /\ state.tasks[last.action.payload.taskListId]
       = Arr(<<last.action.payload.task>>)

\* C10: the UPDATE_TASK transition for (listId, taskId, task), when no
\* task under tasks[listId] has id taskId, leaves what tasks[listId] reads
\* as unchanged: same length, same contents.
C10_UpdateUnknownTaskNoOp ==
  Applied(UPDATE_TASK) =>
    LET p   == last.action.payload
        old == JsGet(prev.tasks, p.taskListId)
    IN (\A i \in 1..Len(old.items) : old.items[i].id # p.taskId)
         => JsGet(state.tasks, p.taskListId) = old

C10_Witness ==
  /\ Applied(UPDATE_TASK)
  /\ last.action.payload.taskListId \in DOMAIN prev.tasks
  /\ prev.tasks[last.action.payload.taskListId].items # <<>>
  /\ \A i \in 1..Len(prev.tasks[last.action.payload.taskListId].items) :
        prev.tasks[last.action.payload.taskListId].items[i].id
          # last.action.payload.taskId
  /\ state.tasks = prev.tasks


\* C11: on initialization the store issues a fetchTaskLists request that no
\* consumer asked for; when that request succeeds and no other operation
\* is issued, the store eventually holds the listing of the service,
\* starting from taskLists = [] and tasks = {}.
NoCallFails == \A i \in Slots : calls[i].st # "fail"

C11_InitialFetchPopulates ==
  /\ <>mounted
  /\ ([](issued = 0) /\ []NoCallFails)
       => <>(Completed("fetchTaskLists") /\ state.taskLists = db)

C11_Witness ==
  /\ issued = 0
  /\ prev = initialState
  /\ Completed("fetchTaskLists")
  /\ db # <<>>
  /\ state.taskLists = db


\* C12: useAppContext outside an AppProvider fails at once with an error
\* and yields neither state nor api; inside an AppProvider it returns the
\* current state and the api without error.
C12_ContextLookup ==
  /\ lookup.scope = "outside" => (lookup.threw /\ lookup.value = <<>>)
  /\ lookup.scope = "inside" =>
       /\ ~lookup.threw
       /\ Len(lookup.value) = 1
       /\ lookup.value[1].state = state
       /\ lookup.value[1].api = ApiMethods

C12_Witness ==
  /\ lookup.scope = "outside"
  /\ lookup.threw
  /\ mounted
  /\ state.taskLists # <<>>


\* C13: an api operation sends exactly one request, when it is invoked,
\* and the snapshot changes only at the step where a request completes
\* successfully: it changes neither when a request is sent, nor while it
\* is in flight, nor when it fails, and one completion is one step.
C13_ChangeOnlyOnSuccess ==
  [][ /\ state' # state =>
           \E i \in Slots :
              /\ calls[i].st = "ok"
              /\ calls'[i] = Idle
              /\ \A j \in Slots \ {i} : calls'[j] = calls[j]
      /\ (issued' # issued \/ mounted' # mounted) =>
           /\ state' = state
           /\ \E i \in Slots :
                 /\ calls[i] = Idle
                 /\ calls'[i].st = "sent"
                 /\ \A j \in Slots \ {i} : calls'[j] = calls[j]
      /\ \A i \in Slots :
           /\ calls[i].st \in {"ok", "fail"} => calls'[i].st # "sent"
           /\ (calls[i].st # "idle" /\ calls'[i].st # "idle") =>
                /\ calls'[i].op = calls[i].op
                /\ calls'[i].id = calls[i].id
                /\ calls'[i].name = calls[i].name
    ]_vars

C13_Witness ==
  \E i \in Slots :
     /\ calls[i].st = "ok"
     /\ calls[i].op = "createTaskList"
     /\ state.taskLists # <<>>
     /\ \A k \in 1..Len(state.taskLists) :
           state.taskLists[k].id # calls[i].data[1].id


\* C14: when two updateTaskList calls for an id held in taskLists are in
\* flight together and both succeed, the entry of that id is the response
\* of the call resumed last, whatever the order in which the requests were
\* sent or handled: after every applied update, every entry of that id is
\* the response just applied.
C14_LastResumedUpdateWins ==
  Completed("updateTaskList") =>
    \A k \in 1..Len(state.taskLists) :
       state.taskLists[k].id = last.id => state.taskLists[k] = last.data[1]

\* both calls of the behaviour were updates of the same id: the service
\* handled the one resumed last first (it holds the other's value), the
\* store applied it last
C14_Witness ==
  /\ Completed("updateTaskList")
  /\ issued = 2
  /\ \A i \in Slots : calls[i] = Idle
  /\ last.data[1].name = "Work"
  /\ \E k \in 1..Len(prev.taskLists) :
        /\ prev.taskLists[k].id = last.id
        /\ prev.taskLists[k].name = "Home"
        /\ state.taskLists[k].name = "Work"
  /\ \E k \in 1..Len(db) : db[k].id = last.id /\ db[k].name = "Home"


\* C15 as stated: a key listId is present in the tasks map only if a
\* FETCH_TASKS for listId has been applied earlier.  No transition removes
\* a key, so this says that a key appears only at a step that applies
\* FETCH_TASKS for it.
C15_KeysOnlyFromFetchTasks ==
  \A k \in (DOMAIN state.tasks) \ (DOMAIN prev.tasks) :
     Applied(FETCH_TASKS) /\ last.action.payload.taskListId = k

\* C15 amended: a key listId holds a task sequence in the tasks map only
\* if a FETCH_TASKS, CREATE_TASK or GET_TASK for listId has been applied
\* earlier.  A key that holds a sequence keeps holding one, so this says
\* that a sequence appears under a key only at such a step.
C15_SequencesOnlyFromFetchCreateGet ==
  \A k \in DOMAIN state.tasks :
     (state.tasks[k].isArray /\ ~JsGet(prev.tasks, k).isArray) =>
        /\ last.kind = "dispatch"
        /\ last.action.type \in {FETCH_TASKS, CREATE_TASK, GET_TASK}
        /\ last.action.payload.taskListId = k

C15_Witness ==
  /\ Applied(GET_TASK)
  /\ last.action.payload.taskListId \notin DOMAIN prev.tasks
  /\ state.tasks[last.action.payload.taskListId]
       = Arr(<<last.action.payload.task>>)


\* C16: the GET_TASK transition for (listId, task) is an upsert on
\* tasks[listId]: a task with task.id already under listId is replaced in
\* place and the length is unchanged; otherwise, also when tasks[listId]
\* exists without that id or is empty, task is appended as last element.
C16_GetTaskUpserts ==
  Applied(GET_TASK) =>
    LET p   == last.action.payload
        old == IF JsGet(prev.tasks, p.taskListId).isArray
                 THEN JsGet(prev.tasks, p.taskListId).items
                 ELSE <<>>
        new == JsGet(state.tasks, p.taskListId)
    IN /\ new.isArray
       /\ IF \E i \in 1..Len(old) : old[i].id = p.task.id
            THEN /\ Len(new.items) = Len(old)
                 /\ \A i \in 1..Len(old) :
                       new.items[i] =
                         IF old[i].id = p.task.id THEN p.task ELSE old[i]
            ELSE new.items = Append(old, p.task)

\* C17: createTask, getTask, updateTask and deleteTask are operations of
\* the api the store hands out, so that CREATE_TASK, GET_TASK, UPDATE_TASK
\* and DELETE_TASK can be reached through it.
TaskMethods == {"createTask", "getTask", "updateTask", "deleteTask"}

C17_TaskMethodsInApi ==
  (lookup.scope = "inside" /\ ~lookup.threw) =>
     TaskMethods \subseteq lookup.value[1].api

\* C18: every key present in the tasks map holds a (possibly empty)
\* sequence of tasks; UPDATE_TASK and DELETE_TASK for a listId that has no
\* key leave the tasks map unchanged.
C18_KeysHoldSequences ==
  /\ \A k \in DOMAIN state.tasks : state.tasks[k].isArray
  /\ ((Applied(UPDATE_TASK) \/ Applied(DELETE_TASK))
        /\ last.action.payload.taskListId \notin DOMAIN prev.tasks)
       => SameKeysAndValues(state.tasks, prev.tasks)

\* C19 as stated: once deleteTaskList(id) has completed and no request
\* that creates or fetches id is issued afterwards, taskLists never again
\* holds an entry of that id, also when responses of requests issued
\* before the delete are applied after it.
C19_DeletedStaysAbsent ==
  \A id \in gone : \A k \in 1..Len(state.taskLists) :
     state.taskLists[k].id # id

\* C19 amended: when deleteTaskList(id) completes taskLists holds no
\* entry of id, and an id that taskLists does not hold comes (back) only
\* at the step that applies the response of a fetchTaskLists, getTaskList
\* or createTaskList carrying it, whenever that request was issued.
C19_AbsentUntilFetchedAgain ==
  /\ Completed("deleteTaskList") =>
       \A k \in 1..Len(state.taskLists) : state.taskLists[k].id # last.id
  /\ \A id \in Ids :
       ((\E k \in 1..Len(state.taskLists) : state.taskLists[k].id = id)
         /\ (\A k \in 1..Len(prev.taskLists) : prev.taskLists[k].id # id))
       => /\ last.kind = "dispatch"
          /\ last.op \in {"fetchTaskLists", "getTaskList", "createTaskList"}
          /\ \E k \in 1..Len(last.data) : last.data[k].id = id

C19_Witness ==
  /\ Completed("getTaskList")
  /\ last.id \in gone
  /\ \A k \in 1..Len(prev.taskLists) : prev.taskLists[k].id # last.id
  /\ \E k \in 1..Len(state.taskLists) : state.taskLists[k].id = last.id

\* C20: every task-list transition leaves the tasks map unchanged; every
\* task transition for a listId leaves taskLists unchanged and, under
\* every other list id, the same key with the same value.
TaskListTypes ==
  {FETCH_TASKLISTS, GET_TASKLIST, CREATE_TASKLIST, UPDATE_TASKLIST,
   DELETE_TASKLIST}

TaskTypes == {FETCH_TASKS, CREATE_TASK, GET_TASK, UPDATE_TASK, DELETE_TASK}

C20_Frames ==
  /\ (last.kind = "dispatch" /\ last.action.type \in TaskListTypes) =>
       SameKeysAndValues(state.tasks, prev.tasks)
  /\ (last.kind = "dispatch" /\ last.action.type \in TaskTypes) =>
       /\ state.taskLists = prev.taskLists
       /\ \A k \in Ids \ {last.action.payload.taskListId} :
             /\ k \in DOMAIN state.tasks <=> k \in DOMAIN prev.tasks
             /\ k \in DOMAIN state.tasks => state.tasks[k] = prev.tasks[k]

C20_Witness ==
  /\ Applied(FETCH_TASKS)
  /\ state.taskLists # <<>>
  /\ \E k \in (DOMAIN state.tasks) \ {last.action.payload.taskListId} :
        state.tasks[k].items # <<>>

==========================================================================
